---------------------------- MODULE Spec2Model ----------------------------
(*
  CyberSentinel backend: the /scan endpoint (backend/src/main.py) and
  URLScannerService.scan (backend/src/services/scanner_service.py).

  One request is a small process: the endpoint calls scanner.scan(url), which
  normalizes and validates the URL, extracts the domain, checks existence,
  probes HTTP, takes the trusted-domain shortcut or goes on to WHOIS, DNS,
  the URLBERT classifier and the risk mapping; the endpoint then persists a
  non-error result with save_scan and returns it.  Every external call is
  one step whose outcome is chosen nondeterministically.

  Risk scores are kept in thousandths (0.1 is 100, 1.0 is 1000).
  An optional value (Python None or a value) is <<>> or <<v>>.
*)
EXTENDS Integers, Sequences, FiniteSets, TLC

\* ------------------------------------------------------------------ bounds

\* Worker slots serving requests.
NumReqs == 2

\* Requests the endpoint accepts in one run (bounds the url_scans table).
MaxScans == 2

Reqs == 1..NumReqs

\* ------------------------------------------------------------------ values

None == <<>>

Some(v) == <<v>>

NoDomain == <<>>

NoUrl == [scheme |-> "", host |-> <<>>, ws |-> FALSE]

\* Raw inputs of the endpoint: scheme ("" when the text has no "://"), the
\* host's labels, and whether the text contains whitespace.
RawUrls ==
  { [scheme |-> "",      host |-> <<"example", "com">>,        ws |-> FALSE],
    [scheme |-> "https", host |-> <<"www", "example", "com">>, ws |-> FALSE],
    [scheme |-> "http",  host |-> <<"evil", "com">>,           ws |-> FALSE],
    [scheme |-> "http",  host |-> <<"evil", "zz">>,            ws |-> FALSE],
    [scheme |-> "http",  host |-> <<"bad", "url">>,            ws |-> TRUE],
    [scheme |-> "",      host |-> <<"localhost">>,             ws |-> FALSE] }

PublicSuffixes == {"com"}

\* Days between a creation timestamp and now, as WHOIS / RDAP report them.
CreationDays == {5, 30, 400}

CreationDates == {None} \cup {Some(d) : d \in CreationDays}

\* Outcomes of dns_lookup: which record types came back non-empty.
DnsOutcomes ==
  { [A |-> FALSE, MX |-> FALSE, NS |-> FALSE],
    [A |-> TRUE,  MX |-> FALSE, NS |-> FALSE],
    [A |-> TRUE,  MX |-> TRUE,  NS |-> TRUE] }

NoDns == [A |-> FALSE, MX |-> FALSE, NS |-> FALSE]

NoWhois == [error |-> FALSE, creation_date |-> None]

id2label == [i \in 0..3 |->
  CASE i = 0 -> "benign" [] i = 1 -> "phishing" [] i = 2 -> "defacement" [] OTHER -> "malware"]

\* Softmax probability of the selected label, in thousandths.
Confidences == {300, 900}

InvalidSyntaxMsg == "Invalid URL format. Please enter a valid URL."

DomainMissingMsg == "Domain does not exist or is not reachable."

TrustedVerdict == "This is a trusted and well-established domain."

NoResult == [pending |-> TRUE]

\* What the caller of /scan gets when an exception leaves the endpoint.
Fault(what) == [fault |-> what]

\* ------------------------------------------------------------------ pure steps

\* scan, step 1: prepend "http://" when the text has no "://".
Normalize(u) == IF u.scheme = "" THEN [u EXCEPT !.scheme = "http"] ELSE u

\* utils.is_valid_url_syntax: no whitespace, a non-empty hostname with a dot.
is_valid_url_syntax(u) == ~u.ws /\ Len(u.host) >= 1 /\ Len(u.host) >= 2

\* utils.extract_domain: suffix-aware registrable domain, <<label, suffix>>;
\* NoDomain when the suffix or the label is empty.
extract_domain(u) ==
  LET n == Len(u.host) IN
  IF n >= 2 /\ u.host[n] \in PublicSuffixes
  THEN <<u.host[n - 1], u.host[n]>>
  ELSE NoDomain

\* utils.domain_exists: DNS returned at least one record type and the HTTP
\* probe answered with a status below 500.
domain_exists(d, dnsAny, probeOk) == d # NoDomain /\ dnsAny /\ probeOk

\* utils.get_whois_info: python-whois, then the RDAP fallback, then the
\* explicit failure marker.
get_whois_info(primaryOk, rdapOk, c) ==
  IF primaryOk \/ rdapOk
  THEN [error |-> FALSE, creation_date |-> c]
  ELSE [error |-> TRUE, creation_date |-> None]

\* utils.calculate_domain_age_days on the value get_whois_info hands over.
calculate_domain_age_days(c) == IF c = None THEN None ELSE Some(c[1])

\* Python round(x, 2) on a score in thousandths (round half to even).
Round2(x) ==
  LET q == x \div 10
      rem == x % 10
  IN  IF rem < 5 THEN 10 * q
      ELSE IF rem > 5 THEN 10 * (q + 1)
      ELSE IF q % 2 = 0 THEN 10 * q ELSE 10 * (q + 1)


\* RiskMapping with the defacement score raised to 0.70 and the tier left MEDIUM.
RiskMappingTier(url_type) ==
  CASE url_type = "benign" ->
         [risk_level |-> "LOW", risk_score |-> 100,
          verdict |-> "This URL appears to be safe."]
    [] url_type = "phishing" ->
         [risk_level |-> "HIGH", risk_score |-> 800,
          verdict |-> "This URL is likely a phishing attempt impersonating a trusted brand."]
    [] url_type = "defacement" ->
         [risk_level |-> "MEDIUM", risk_score |-> 700,
          verdict |-> "This URL may be associated with website defacement."]
    [] OTHER ->
         [risk_level |-> "HIGH", risk_score |-> 900,
          verdict |-> "This URL may distribute malware and should be avoided."]

\* RiskMapping with the phishing and malware scores exchanged.
RiskMappingSwap(url_type) ==
  CASE url_type = "benign" ->
         [risk_level |-> "LOW", risk_score |-> 100,
          verdict |-> "This URL appears to be safe."]
    [] url_type = "phishing" ->
         [risk_level |-> "HIGH", risk_score |-> 900,
          verdict |-> "This URL is likely a phishing attempt impersonating a trusted brand."]
    [] url_type = "defacement" ->
         [risk_level |-> "MEDIUM", risk_score |-> 600,
          verdict |-> "This URL may be associated with website defacement."]
    [] OTHER ->
         [risk_level |-> "HIGH", risk_score |-> 800,
          verdict |-> "This URL may distribute malware and should be avoided."]

\* RiskMapping with the defacement branch carrying the malware verdict.
RiskMappingVerdict(url_type) ==
  CASE url_type = "benign" ->
         [risk_level |-> "LOW", risk_score |-> 100,
          verdict |-> "This URL appears to be safe."]
    [] url_type = "phishing" ->
         [risk_level |-> "HIGH", risk_score |-> 800,
          verdict |-> "This URL is likely a phishing attempt impersonating a trusted brand."]
    [] url_type = "defacement" ->
         [risk_level |-> "MEDIUM", risk_score |-> 600,
          verdict |-> "This URL may distribute malware and should be avoided."]
    [] OTHER ->
         [risk_level |-> "HIGH", risk_score |-> 900,
          verdict |-> "This URL may distribute malware and should be avoided."]

\* scan, step 9: the risk mapping, keyed on the predicted label alone.
RiskMapping(url_type) ==
  CASE url_type = "benign" ->
         [risk_level |-> "LOW", risk_score |-> 100,
          verdict |-> "This URL appears to be safe."]
    [] url_type = "phishing" ->
         [risk_level |-> "HIGH", risk_score |-> 800,
          verdict |-> "This URL is likely a phishing attempt impersonating a trusted brand."]
    [] url_type = "defacement" ->
         [risk_level |-> "MEDIUM", risk_score |-> 600,
          verdict |-> "This URL may be associated with website defacement."]
    [] OTHER ->
         [risk_level |-> "HIGH", risk_score |-> 900,
          verdict |-> "This URL may distribute malware and should be avoided."]

\* TrustedResult carrying the benign score of the risk mapping instead of 0.0.
TrustedResultScored(domain, http_reachable) ==
  [domain |-> domain, trust_status |-> "Trusted", url_type |-> "benign",
   risk_level |-> "LOW", risk_score |-> 100, reachable |-> http_reachable,
   verdict |-> TrustedVerdict]

\* scan, step 6: the result of the trusted-domain shortcut.
TrustedResult(domain, http_reachable) ==
  [domain |-> domain, trust_status |-> "Trusted", url_type |-> "benign",
   risk_level |-> "LOW", risk_score |-> 0, reachable |-> http_reachable,
   verdict |-> TrustedVerdict]

\* FinalResult deriving trust_status from the score instead of fixing it.
FinalResultOrganic(domain, url_type, http_reachable) ==
  LET m == RiskMapping(url_type) IN
  [domain |-> domain,
   trust_status |-> IF m.risk_score < 400 THEN "Trusted" ELSE "Untrusted",
   url_type |-> url_type,
   risk_level |-> m.risk_level, risk_score |-> Round2(m.risk_score),
   reachable |-> http_reachable, verdict |-> m.verdict]

\* scan, final response of the classifier path.
FinalResult(domain, url_type, http_reachable) ==
  LET m == RiskMapping(url_type) IN
  [domain |-> domain, trust_status |-> "Untrusted", url_type |-> url_type,
   risk_level |-> m.risk_level, risk_score |-> Round2(m.risk_score),
   reachable |-> http_reachable, verdict |-> m.verdict]

\* scan, step 2: the result for a URL that fails syntax validation.
InvalidResult == [error |-> InvalidSyntaxMsg]

\* NonexistentResult with the message of the syntax branch pasted in.
NonexistentResultPasted == [error |-> InvalidSyntaxMsg]

\* scan, step 4: the result when domain_exists is false.
NonexistentResult == [error |-> DomainMissingMsg]

\* ScanRow reading trust_status from the wrong key of the result.
ScanRowWrongKey(url, result) ==
  [url |-> url, domain |-> result.domain, risk_score |-> result.risk_score,
   trust_status |-> result.risk_level, url_type |-> result.url_type]

\* save_scan: the row inserted into url_scans (the url is the raw query text).
ScanRow(url, result) ==
  [url |-> url, domain |-> result.domain, risk_score |-> result.risk_score,
   trust_status |-> result.trust_status, url_type |-> result.url_type]

IsError(res) == "error" \in DOMAIN res

IsFault(res) == "fault" \in DOMAIN res

IsScanResult(res) == "risk_score" \in DOMAIN res

\* ------------------------------------------------------------------ creation dates

\* A Python value handed to calculate_domain_age_days.  A datetime is the
\* number of hours its wall-clock reading lies before the reading of
\* datetime.utcnow(), and, when timezone-aware, its UTC offset in hours; a
\* string is ISO-8601 text of such a datetime, other text, or empty.
PyVal(kind, aware, ago, off, text, items) ==
  [kind |-> kind, aware |-> aware, ago |-> ago, off |-> off, text |-> text, items |-> items]

PyNone == PyVal("none", FALSE, 0, 0, "", <<>>)

PyInt(n) == PyVal("int", FALSE, n, 0, "", <<>>)

PyDate(ago) == PyVal("date", FALSE, ago, 0, "", <<>>)

PyList(items) == PyVal("list", FALSE, 0, 0, "", items)

AgoHours == {-1, 0, 23, 24, 720}

UtcOffsets == {-12, 0, 14}

Datetimes ==
  {PyVal("datetime", FALSE, h, 0, "", <<>>) : h \in AgoHours}
    \cup {PyVal("datetime", TRUE, h, o, "", <<>>) : h \in AgoHours, o \in UtcOffsets}

Strings ==
  {[d EXCEPT !.kind = "str", !.text = "iso"] : d \in Datetimes}
    \cup {PyVal("str", FALSE, 0, 0, "bad", <<>>), PyVal("str", FALSE, 0, 0, "", <<>>)}

Scalars == {PyNone, PyInt(0), PyInt(5), PyDate(24)} \cup Datetimes \cup Strings

\* Every shape of creation-date value: a scalar, the empty list, a list with
\* a scalar or a list in front.
CreationValues ==
  Scalars \cup {PyList(<<>>)} \cup {PyList(<<x>>) : x \in Scalars}
    \cup {PyList(<<x, PyNone>>) : x \in Datetimes}
    \cup {PyList(<<PyList(<<x>>)>>) : x \in Datetimes}

\* The outcome of a call: a returned value or an exception.
Returns(v) == [raised |-> FALSE, value |-> v]

Raises == [raised |-> TRUE, value |-> None]

\* Python truth value: None, 0, "" and [] are false.
Falsy(v) ==
  \/ v.kind = "none"
  \/ v.kind = "int" /\ v.ago = 0
  \/ v.kind = "str" /\ v.text = ""
  \/ v.kind = "list" /\ v.items = <<>>

\* datetime.fromisoformat: the datetime the text denotes, or ValueError.
fromisoformat(v) ==
  IF v.text = "iso" THEN Returns([v EXCEPT !.kind = "datetime", !.text = ""]) ELSE Raises

\* utils.calculate_domain_age_days.
CalculateDomainAgeDays(creation_date) ==
  IF Falsy(creation_date) THEN Returns(None)
  ELSE
    LET first == IF creation_date.kind = "list" THEN creation_date.items[1]
                 ELSE creation_date
        parsed == IF first.kind = "str" THEN fromisoformat(first) ELSE Returns(first)
    IN  IF parsed.raised THEN Returns(None)
        ELSE
          LET dt == parsed.value IN
          \* creation_date.tzinfo: only a datetime has the attribute
          IF dt.kind # "datetime" THEN Raises
          ELSE
            LET utcAgo == IF dt.aware THEN dt.ago + dt.off ELSE dt.ago
            IN  Returns(Some(utcAgo \div 24))

\* utils._safe_date (the definition in force, the second one of the module).
safe_date(dt) ==
  IF dt.kind = "list" /\ dt.items = <<>> THEN PyNone
  ELSE
    LET first == IF dt.kind = "list" THEN dt.items[1] ELSE dt IN
    IF first.kind = "str"
    THEN (IF fromisoformat(first).raised THEN PyNone ELSE fromisoformat(first).value)
    ELSE first

NoAgeCall == [pc |-> "none", input |-> PyNone, arg |-> PyNone, out |-> Returns(None)]

\* ------------------------------------------------------------------ state

VARIABLES
  req,              \* per worker slot: the request in flight and its locals
  db,               \* the url_scans table, in insertion order
  popular_domains,  \* URLScannerService.popular_domains
  served,           \* requests accepted so far
  lastVerdict,      \* trust_status, url_type and verdict of the last ScanResult returned
  ageCall           \* one call of calculate_domain_age_days: argument and outcome

vars == <<req, db, popular_domains, served, lastVerdict, ageCall>>

\* PopularDomainRepository.domains: the set read from popular_domains.csv.
LoadedDomains == {<<"example", "com">>}

IdleReq ==
  [pc |-> "idle", url |-> NoUrl, nurl |-> NoUrl, domain |-> NoDomain,
   existDns |-> FALSE, existHttp |-> FALSE, exists |-> FALSE,
   http_reachable |-> FALSE, whois_data |-> NoWhois, dns_data |-> NoDns,
   age_days |-> None, url_type |-> "", confidence |-> 0,
   result |-> NoResult, response |-> NoResult, saved |-> "no", row |-> None,
   calls |-> <<>>]

Init ==
  /\ req = [r \in Reqs |-> IdleReq]
  /\ db = <<>>
  /\ popular_domains = LoadedDomains
  /\ served = 0
  /\ lastVerdict = None
  /\ ageCall = NoAgeCall

\* /scan: scanner.scan(url) has returned res; an error result is returned at
\* once, any other goes to save_scan.
AfterScan(rq, res) ==
  IF IsError(res)
  THEN [rq EXCEPT !.result = res, !.response = res, !.pc = "done"]
  ELSE [rq EXCEPT !.result = res, !.pc = "save"]

\* AfterSave without the try / except: the exception of save_scan leaves the endpoint.
AfterSaveNoExcept(rq, ok) ==
  [rq EXCEPT !.saved = IF ok THEN "ok" ELSE "raised",
             !.response = IF ok THEN rq.result ELSE Fault("save"),
             !.pc = "done"]

\* /scan: the try / except around save_scan, then return result.
AfterSave(rq, ok) ==
  [rq EXCEPT !.saved = IF ok THEN "ok" ELSE "raised",
             !.response = rq.result, !.pc = "done"]

Call(rq, what) == [rq EXCEPT !.calls = Append(@, what)]

\* ------------------------------------------------------------------ actions

\* A client calls GET /scan?url=u.
ReceiveUrl(r, u) ==
  /\ req[r].pc = "idle"
  /\ served < MaxScans
  /\ req' = [req EXCEPT ![r] = [IdleReq EXCEPT !.pc = "validate", !.url = u]]
  /\ served' = served + 1
  /\ UNCHANGED <<db, popular_domains, lastVerdict, ageCall>>

\* A request is accepted when no other is in flight: a scan shares nothing
\* with another scan but the url_scans table and the read-only trust set.
Receive(r) ==
  /\ \A o \in Reqs : req[o].pc = "idle"
  /\ \E u \in RawUrls : ReceiveUrl(r, u)

\* Validate without the early return: the domain is extracted and checked
\* whatever is_valid_url_syntax said.
ValidateLate(r) ==
  /\ req[r].pc = "validate"
  /\ LET nurl == Normalize(req[r].url)
         rq == [req[r] EXCEPT !.nurl = nurl]
     IN  req' = [req EXCEPT ![r] =
                   [rq EXCEPT !.domain = extract_domain(nurl), !.pc = "exists"]]
  /\ UNCHANGED <<db, popular_domains, served, lastVerdict, ageCall>>

\* scan, steps 1-3: normalize, validate, extract the domain.
Validate(r) ==
  /\ req[r].pc = "validate"
  /\ LET nurl == Normalize(req[r].url)
         rq == [req[r] EXCEPT !.nurl = nurl]
     IN  IF ~is_valid_url_syntax(nurl)
         THEN req' = [req EXCEPT ![r] = AfterScan(rq, InvalidResult)]
         ELSE req' = [req EXCEPT ![r] =
                        [rq EXCEPT !.domain = extract_domain(nurl), !.pc = "exists"]]
  /\ UNCHANGED <<db, popular_domains, served, lastVerdict, ageCall>>

\* DomainExists with the WHOIS lookup hoisted above the early return.
DomainExistsWhoisFirst(r) ==
  /\ req[r].pc = "exists"
  /\ \E dnsAny \in BOOLEAN, probeOk \in BOOLEAN :
       LET d == req[r].domain
           found == d # NoDomain /\ dnsAny
           rq == [Call(Call(req[r], "dns"), "http") EXCEPT
                    !.existDns = found, !.existHttp = probeOk,
                    !.exists = domain_exists(d, dnsAny, probeOk)]
       IN  IF ~rq.exists
           THEN req' = [req EXCEPT ![r] = AfterScan(Call(rq, "whois"), NonexistentResult)]
           ELSE req' = [req EXCEPT ![r] = [rq EXCEPT !.pc = "http"]]
  /\ UNCHANGED <<db, popular_domains, served, lastVerdict, ageCall>>

\* DomainExists without the early return: a false check is only recorded.
DomainExistsSoft(r) ==
  /\ req[r].pc = "exists"
  /\ \E dnsAny \in BOOLEAN, probeOk \in BOOLEAN :
       LET d == req[r].domain
           found == d # NoDomain /\ dnsAny
           rq == [Call(Call(req[r], "dns"), "http") EXCEPT
                    !.existDns = found, !.existHttp = probeOk,
                    !.exists = domain_exists(d, dnsAny, probeOk)]
       IN  req' = [req EXCEPT ![r] = [rq EXCEPT !.pc = "http"]]
  /\ UNCHANGED <<db, popular_domains, served, lastVerdict, ageCall>>

\* scan, step 4: domain_exists(domain); false returns the error result.
DomainExists(r) ==
  /\ req[r].pc = "exists"
  /\ \E dnsAny \in BOOLEAN, probeOk \in BOOLEAN :
       LET d == req[r].domain
           found == d # NoDomain /\ dnsAny
           rq == [Call(Call(req[r], "dns"), "http") EXCEPT
                    !.existDns = found, !.existHttp = probeOk,
                    !.exists = domain_exists(d, dnsAny, probeOk)]
       IN  IF ~rq.exists
           THEN req' = [req EXCEPT ![r] = AfterScan(rq, NonexistentResult)]
           ELSE req' = [req EXCEPT ![r] = [rq EXCEPT !.pc = "http"]]
  /\ UNCHANGED <<db, popular_domains, served, lastVerdict, ageCall>>

\* scan, steps 5-6: the soft HTTP check, then the trusted-domain shortcut.
HttpAccessible(r) ==
  /\ req[r].pc = "http"
  /\ \E reachable \in BOOLEAN :
       LET rq == [Call(req[r], "http") EXCEPT !.http_reachable = reachable] IN
       IF rq.domain \in popular_domains
       THEN req' = [req EXCEPT ![r] =
                      AfterScan(rq, TrustedResult(rq.domain, reachable))]
       ELSE req' = [req EXCEPT ![r] = [rq EXCEPT !.pc = "whois"]]
  /\ UNCHANGED <<db, popular_domains, served, lastVerdict, ageCall>>

\* scan, step 7: get_whois_info(domain).
WhoisLookup(r) ==
  /\ req[r].pc = "whois"
  /\ \E primaryOk \in BOOLEAN, rdapOk \in BOOLEAN, c \in CreationDates :
       req' = [req EXCEPT ![r] =
                 [Call(req[r], "whois") EXCEPT
                    !.whois_data = get_whois_info(primaryOk, rdapOk, c),
                    !.pc = "dns"]]
  /\ UNCHANGED <<db, popular_domains, served, lastVerdict, ageCall>>

\* scan, step 7: dns_lookup(domain) and calculate_domain_age_days.
DnsLookup(r) ==
  /\ req[r].pc = "dns"
  /\ \E out \in DnsOutcomes :
       req' = [req EXCEPT ![r] =
                 [Call(req[r], "dns") EXCEPT
                    !.dns_data = out,
                    !.age_days = calculate_domain_age_days(req[r].whois_data.creation_date),
                    !.pc = "classify"]]
  /\ UNCHANGED <<db, popular_domains, served, lastVerdict, ageCall>>

\* Classify remembering a benign domain in the shared trust set.
ClassifyCaching(r) ==
  /\ req[r].pc = "classify"
  /\ \/ /\ req' = [req EXCEPT ![r] =
                     [Call(req[r], "classifier") EXCEPT
                        !.response = Fault("classifier"), !.pc = "done"]]
        /\ UNCHANGED popular_domains
     \/ \E i \in DOMAIN id2label, conf \in Confidences :
          LET rq == [Call(req[r], "classifier") EXCEPT
                       !.url_type = id2label[i], !.confidence = conf]
          IN  /\ req' = [req EXCEPT ![r] =
                           AfterScan(rq, FinalResult(rq.domain, rq.url_type, rq.http_reachable))]
              /\ popular_domains' =
                   IF rq.url_type = "benign"
                   THEN popular_domains \cup {rq.domain} ELSE popular_domains
  /\ UNCHANGED <<db, served, lastVerdict, ageCall>>

\* scan, steps 8-9: tokenizer and model, risk mapping, final response.  An
\* exception of the tokenizer or the model leaves scan and the endpoint.
Classify(r) ==
  /\ req[r].pc = "classify"
  /\ \/ req' = [req EXCEPT ![r] =
                  [Call(req[r], "classifier") EXCEPT
                     !.response = Fault("classifier"), !.pc = "done"]]
     \/ \E i \in DOMAIN id2label, conf \in Confidences :
          LET rq == [Call(req[r], "classifier") EXCEPT
                       !.url_type = id2label[i], !.confidence = conf]
          IN  req' = [req EXCEPT ![r] =
                        AfterScan(rq, FinalResult(rq.domain, rq.url_type, rq.http_reachable))]
  /\ UNCHANGED <<db, popular_domains, served, lastVerdict, ageCall>>

\* /scan: save_scan(url, result) inside try / except, then return result.
SaveScan(r) ==
  /\ req[r].pc = "save"
  /\ \E ok \in BOOLEAN :
       LET row == ScanRow(req[r].url, req[r].result) IN
       /\ req' = [req EXCEPT ![r] =
                    AfterSave([Call(req[r], "save") EXCEPT !.row = Some(row)], ok)]
       /\ db' = IF ok THEN Append(db, row) ELSE db
  /\ UNCHANGED <<popular_domains, served, lastVerdict, ageCall>>

\* The response leaves the endpoint; the slot is free again.
Return(r) ==
  /\ req[r].pc = "done"
  /\ req' = [req EXCEPT ![r] = IdleReq]
  /\ lastVerdict' =
       IF IsScanResult(req[r].response)
       THEN Some([trust_status |-> req[r].response.trust_status,
                  url_type |-> req[r].response.url_type,
                  verdict |-> req[r].response.verdict])
       ELSE lastVerdict
  /\ UNCHANGED <<db, popular_domains, served, ageCall>>

Next ==
  \E r \in Reqs :
    \/ Receive(r)
    \/ Validate(r)
    \/ DomainExists(r)
    \/ HttpAccessible(r)
    \/ WhoisLookup(r)
    \/ DnsLookup(r)
    \/ Classify(r)
    \/ SaveScan(r)
    \/ Return(r)

Spec == Init /\ [][Next]_vars

\* Responses the interleaved runs draw from: one trusted, one unlisted and one
\* malformed URL, and a part of the WHOIS, DNS and classifier outcomes.
ConcUrls ==
  {u \in RawUrls : u.host \in {<<"example", "com">>, <<"evil", "com">>, <<"bad", "url">>}}

ConcWhois == {get_whois_info(FALSE, FALSE, None), get_whois_info(TRUE, FALSE, Some(5))}

ConcDns == {d \in DnsOutcomes : d.NS}

ConcLabels == {"", "benign", "phishing"}

\* The endpoint under concurrent clients: FastAPI runs the synchronous /scan
\* handler in a thread pool, so requests are accepted while others are in
\* flight and their steps interleave at every external call.
ConcNext ==
  \E r \in Reqs :
    \/ \E u \in ConcUrls : ReceiveUrl(r, u)
    \/ Validate(r)
    \/ DomainExists(r)
    \/ HttpAccessible(r)
    \/ WhoisLookup(r) /\ req'[r].whois_data \in ConcWhois
    \/ DnsLookup(r) /\ req'[r].dns_data \in ConcDns
    \/ Classify(r) /\ req'[r].url_type \in ConcLabels /\ req'[r].confidence # 300
    \/ SaveScan(r)
    \/ Return(r)

ConcSpec == Init /\ [][ConcNext]_vars

\* calculate_domain_age_days taken alone: one creation-date value of any
\* shape, passed directly or, as get_whois_info does, through _safe_date.
AgeInit ==
  /\ req = [r \in Reqs |-> IdleReq]
  /\ db = <<>>
  /\ popular_domains = LoadedDomains
  /\ served = 0
  /\ lastVerdict = None
  /\ \E v \in CreationValues : ageCall = [NoAgeCall EXCEPT !.pc = "start", !.input = v]

AgeDirect ==
  /\ ageCall.pc = "start"
  /\ ageCall' = [ageCall EXCEPT !.pc = "done", !.arg = ageCall.input,
                                 !.out = CalculateDomainAgeDays(ageCall.input)]
  /\ UNCHANGED <<req, db, popular_domains, served, lastVerdict>>

AgeViaSafeDate ==
  /\ ageCall.pc = "start"
  /\ ageCall' = [ageCall EXCEPT !.pc = "done", !.arg = safe_date(ageCall.input),
                                 !.out = CalculateDomainAgeDays(safe_date(ageCall.input))]
  /\ UNCHANGED <<req, db, popular_domains, served, lastVerdict>>

AgeNext == AgeDirect \/ AgeViaSafeDate

AgeSpec == AgeInit /\ [][AgeNext]_vars

TypeOK ==
  /\ served \in 0..MaxScans
  /\ Len(db) <= served
  /\ \A r \in Reqs : req[r].pc \in
       {"idle", "validate", "exists", "http", "whois", "dns", "classify", "save", "done"}

\* ------------------------------------------------------------------ properties

Valid(rq) == is_valid_url_syntax(Normalize(rq.url))

Returned(rq) == rq.pc \in {"save", "done"} /\ IsScanResult(rq.result)

Issued(rq, what) == \E i \in DOMAIN rq.calls : rq.calls[i] = what

HttpProbes(rq) == Len(SelectSeq(rq.calls, LAMBDA c : c = "http"))

\* C1: a request whose URL fails syntax validation (after "http://" is
\* prepended when it has no "://") issues no DNS, HTTP, WHOIS or classifier
\* call and no save_scan, goes from validation straight to the response, and
\* the response is the "Invalid URL format" error result.
C1_InvalidSyntaxNoCalls ==
  \A r \in Reqs :
    (req[r].pc # "idle" /\ ~Valid(req[r])) =>
      /\ req[r].calls = <<>>
      /\ req[r].pc \in {"validate", "done"}
      /\ req[r].pc = "done" =>
           /\ req[r].response = [error |-> InvalidSyntaxMsg]
           /\ req[r].saved = "no"

\* C1 witness: the malformed "http:// bad url" has been answered with the
\* error result and the table is empty.
C1_Witness ==
  \E r \in Reqs :
    /\ req[r].pc = "done"
    /\ ~Valid(req[r])
    /\ req[r].url.ws
    /\ req[r].response = [error |-> InvalidSyntaxMsg]
    /\ db = <<>>

\* C2 as stated: when the existence check of a valid URL is false (no DNS
\* records, failed probe) the response is a ScanResult with url_type
\* "non-existent", risk_level HIGH, risk_score 1.0 and reachable false.
C2_Original ==
  \A r \in Reqs :
    (req[r].pc = "done" /\ Valid(req[r]) /\ Len(req[r].calls) >= 2
       /\ ~req[r].existDns /\ ~req[r].existHttp) =>
      /\ IsScanResult(req[r].response)
      /\ req[r].response.url_type = "non-existent"
      /\ req[r].response.risk_level = "HIGH"
      /\ req[r].response.risk_score = 1000
      /\ req[r].response.reachable = FALSE

\* C2 amended: when the existence check of a valid URL is false, the response
\* is the error result "Domain does not exist or is not reachable.", which
\* carries no url_type, risk_level, risk_score or reachable field, and nothing
\* was called after the check.
C2_NonexistentIsError ==
  \A r \in Reqs :
    (req[r].pc \in {"http", "whois", "dns", "classify", "save", "done"}
       /\ Valid(req[r]) /\ ~req[r].exists) =>
      /\ req[r].pc = "done"
      /\ req[r].response = [error |-> DomainMissingMsg]
      /\ DOMAIN req[r].response = {"error"}
      /\ req[r].calls = <<"dns", "http">>

\* C2 witness: a valid URL with an extractable domain, no DNS records and a
\* failed probe has been answered.
C2_Witness ==
  \E r \in Reqs :
    /\ req[r].pc = "done"
    /\ Valid(req[r])
    /\ req[r].domain # NoDomain
    /\ Len(req[r].calls) = 2
    /\ ~req[r].existDns /\ ~req[r].existHttp
    /\ IsError(req[r].response)

\* C3 as stated: every valid URL whose canonical domain is in the trust set
\* is answered Trusted / benign / LOW / 0.0, whatever the signals return,
\* DNS existence included.
C3_Original ==
  \A r \in Reqs :
    (req[r].pc = "done" /\ Valid(req[r])
       /\ extract_domain(Normalize(req[r].url)) \in popular_domains) =>
      /\ IsScanResult(req[r].response)
      /\ req[r].response.trust_status = "Trusted"
      /\ req[r].response.url_type = "benign"
      /\ req[r].response.risk_level = "LOW"
      /\ req[r].response.risk_score = 0

\* C3 amended: every valid URL whose canonical domain is in the trust set and
\* passes the existence check is answered Trusted / benign / LOW / 0.0,
\* whatever the later HTTP probe returns; WHOIS and the classifier are not
\* consulted.
C3_TrustedShortcut ==
  \A r \in Reqs :
    (req[r].pc \in {"whois", "dns", "classify", "save", "done"} /\ Valid(req[r])
       /\ req[r].exists /\ req[r].domain \in popular_domains) =>
      /\ req[r].pc \in {"save", "done"}
      /\ IsScanResult(req[r].result)
      /\ req[r].result.domain = req[r].domain
      /\ req[r].result.trust_status = "Trusted"
      /\ req[r].result.url_type = "benign"
      /\ req[r].result.risk_level = "LOW"
      /\ req[r].result.risk_score = 0
      /\ ~Issued(req[r], "whois") /\ ~Issued(req[r], "classifier")
      /\ req[r].pc = "done" => req[r].response = req[r].result

\* C3 witness: the bare input "example.com" (no scheme), in the trust list,
\* has been answered although the soft HTTP probe failed.
C3_Witness ==
  \E r \in Reqs :
    /\ req[r].pc = "done"
    /\ req[r].url.scheme = ""
    /\ req[r].domain = <<"example", "com">>
    /\ req[r].exists /\ ~req[r].http_reachable
    /\ IsScanResult(req[r].response)
    /\ req[r].response.trust_status = "Trusted"

\* C4: in every ScanResult scan returns, 0.0 <= risk_score <= 1.0 and
\* risk_level is HIGH when the score is >= 0.70, MEDIUM when it is in
\* [0.40, 0.70), LOW otherwise.
C4_TierFromScore ==
  \A r \in Reqs :
    Returned(req[r]) =>
      LET sc == req[r].result.risk_score IN
      /\ 0 <= sc /\ sc <= 1000
      /\ req[r].result.risk_level =
           IF sc >= 700 THEN "HIGH" ELSE IF sc >= 400 THEN "MEDIUM" ELSE "LOW"

\* C4 witness: a defacement result (0.60, MEDIUM) has been returned.
C4_Witness ==
  \E r \in Reqs :
    /\ req[r].pc = "done"
    /\ IsScanResult(req[r].response)
    /\ req[r].response.url_type = "defacement"
    /\ req[r].response.risk_level = "MEDIUM"

\* C5 as stated: in every ScanResult, trust_status is "Trusted" exactly when
\* risk_score < 0.40.
C5_Original ==
  \A r \in Reqs :
    Returned(req[r]) =>
      (req[r].result.trust_status = "Trusted" <=> req[r].result.risk_score < 400)

\* C5 amended: in every ScanResult, trust_status is "Trusted" exactly when the
\* canonical domain is in the trust set; a domain that is not on the list is
\* "Untrusted" also when it scores below 0.40 (benign: 0.10).
C5_TrustedIffListed ==
  \A r \in Reqs :
    Returned(req[r]) =>
      /\ req[r].result.trust_status \in {"Trusted", "Untrusted"}
      /\ req[r].result.trust_status = "Trusted" <=> req[r].domain \in popular_domains
      /\ (req[r].domain \notin popular_domains /\ req[r].url_type = "benign") =>
           /\ req[r].result.risk_score = 100
           /\ req[r].result.trust_status = "Untrusted"

\* C5 witness: an unlisted domain labelled benign with an established, fully
\* resolvable, reachable site has been answered.
C5_Witness ==
  \E r \in Reqs :
    /\ req[r].pc = "done"
    /\ req[r].domain \notin popular_domains
    /\ req[r].url_type = "benign"
    /\ req[r].age_days = Some(400)
    /\ req[r].dns_data.A /\ req[r].dns_data.MX /\ req[r].dns_data.NS
    /\ req[r].http_reachable
    /\ IsScanResult(req[r].response)
    /\ req[r].response.risk_score < 400

\* The score of the weighted sum C6 states, in thousandths: the capped
\* classifier term, the age term, the DNS credits, the reachability credit,
\* clamped to [0, 1].
WeightedSum(rq) ==
  LET clf == IF rq.url_type # "benign"
             THEN (IF rq.confidence < 400 THEN rq.confidence ELSE 400) ELSE 0
      age == IF rq.age_days = None THEN 0
             ELSE IF rq.age_days[1] < 30 THEN 300
             ELSE IF rq.age_days[1] < 365 THEN 150 ELSE -300
      dns == (IF rq.dns_data.A THEN -150 ELSE 0) + (IF rq.dns_data.MX THEN -100 ELSE 0)
               + (IF rq.dns_data.NS THEN -100 ELSE 0)
      http == IF rq.http_reachable THEN -100 ELSE 0
      sum == clf + age + dns + http
  IN  IF sum < 0 THEN 0 ELSE IF sum > 1000 THEN 1000 ELSE sum

\* C6 as stated: for an existing, non-trusted domain the returned risk_score
\* is the clamped weighted sum of the classifier, age, DNS and reachability
\* terms (so the 5-day-old phishing domain scores 0.45, MEDIUM).
C6_Original ==
  \A r \in Reqs :
    (Returned(req[r]) /\ req[r].domain \notin popular_domains) =>
      req[r].result.risk_score = WeightedSum(req[r])

\* C6 amended: for an existing, non-trusted domain the returned risk_score is
\* fixed by the classifier label alone: benign 0.10, phishing 0.80,
\* defacement 0.60, malware 0.90; confidence, domain age, DNS records and
\* HTTP reachability contribute nothing.  In particular the 5-day-old domain
\* labelled phishing with confidence 0.9, only an A record, reachable, scores
\* 0.80 and is HIGH.
C6_ScoreFromLabel ==
  \A r \in Reqs :
    (Returned(req[r]) /\ req[r].domain \notin popular_domains) =>
      /\ req[r].result.url_type = req[r].url_type
      /\ req[r].result.risk_score =
           CASE req[r].url_type = "benign" -> 100
             [] req[r].url_type = "phishing" -> 800
             [] req[r].url_type = "defacement" -> 600
             [] req[r].url_type = "malware" -> 900
      /\ (req[r].url_type = "phishing" /\ req[r].confidence = 900
            /\ req[r].age_days = Some(5) /\ req[r].http_reachable
            /\ req[r].dns_data = [A |-> TRUE, MX |-> FALSE, NS |-> FALSE]) =>
           /\ req[r].result.risk_score = 800
           /\ req[r].result.risk_level = "HIGH"

\* C6 witness: the scenario of the claim has been answered, and its score is
\* not the weighted sum.
C6_Witness ==
  \E r \in Reqs :
    /\ req[r].pc = "done"
    /\ IsScanResult(req[r].response)
    /\ req[r].domain \notin popular_domains
    /\ req[r].url_type = "phishing" /\ req[r].confidence = 900
    /\ req[r].age_days = Some(5) /\ req[r].http_reachable
    /\ req[r].dns_data = [A |-> TRUE, MX |-> FALSE, NS |-> FALSE]
    /\ WeightedSum(req[r]) = 450
    /\ req[r].response.risk_score # 450

\* C7 as stated: once DNS has returned a record type and an HTTP probe of the
\* request has failed, the scan goes on to neither WHOIS nor the classifier
\* nor the risk mapping.
C7_Original ==
  \A r \in Reqs :
    (/\ req[r].existDns
     /\ \/ (HttpProbes(req[r]) >= 1 /\ ~req[r].existHttp)
        \/ (HttpProbes(req[r]) >= 2 /\ ~req[r].http_reachable)) =>
      /\ ~Issued(req[r], "whois")
      /\ ~Issued(req[r], "classifier")
      /\ ~IsScanResult(req[r].result)

\* C7 amended: when DNS returned a record type but the HTTP probe of the
\* existence check failed, the domain is treated as non-existent: scan returns
\* the error result at once, without the WHOIS lookup, the classifier or the
\* risk mapping.  A failure of the later soft probe (is_http_accessible) does
\* not stop the scan; it only sets reachable = false.
C7_ExistenceProbeShortCircuits ==
  \A r \in Reqs :
    /\ (req[r].existDns /\ HttpProbes(req[r]) >= 1 /\ ~req[r].existHttp) =>
         /\ req[r].pc = "done"
         /\ ~req[r].exists
         /\ IsError(req[r].response)
         /\ ~IsScanResult(req[r].result)
         /\ ~Issued(req[r], "whois") /\ ~Issued(req[r], "classifier")
         /\ HttpProbes(req[r]) = 1
    /\ (Returned(req[r]) /\ HttpProbes(req[r]) = 2 /\ ~req[r].http_reachable) =>
         (req[r].exists /\ req[r].result.reachable = FALSE)

\* C7 witness: DNS found records for an extractable domain, the probe of the
\* existence check failed, and the request has been answered.
C7_Witness ==
  \E r \in Reqs :
    /\ req[r].pc = "done"
    /\ req[r].domain # NoDomain
    /\ req[r].existDns /\ ~req[r].existHttp
    /\ req[r].response = [error |-> DomainMissingMsg]

\* C8 as stated: the verdict is fixed by trust_status alone: a ScanResult
\* with the trust_status of the previously returned ScanResult carries the
\* same verdict.
C8_Original ==
  \A r \in Reqs :
    (req[r].pc = "done" /\ IsScanResult(req[r].response) /\ lastVerdict # None) =>
      (req[r].response.trust_status = lastVerdict[1].trust_status =>
         req[r].response.verdict = lastVerdict[1].verdict)

\* C8 amended: the verdict is one of five fixed strings and is determined by
\* trust_status together with url_type: the trusted template for a Trusted
\* result, and for an Untrusted result one template per classifier label
\* (benign, phishing, defacement, malware).
C8_VerdictFromTrustAndType ==
  \A r \in Reqs :
    Returned(req[r]) =>
      LET res == req[r].result IN
      /\ res.verdict =
           IF res.trust_status = "Trusted"
           THEN "This is a trusted and well-established domain."
           ELSE CASE res.url_type = "benign" -> "This URL appears to be safe."
                  [] res.url_type = "phishing" ->
                       "This URL is likely a phishing attempt impersonating a trusted brand."
                  [] res.url_type = "defacement" ->
                       "This URL may be associated with website defacement."
                  [] res.url_type = "malware" ->
                       "This URL may distribute malware and should be avoided."
      /\ (lastVerdict # None /\ lastVerdict[1].trust_status = res.trust_status
            /\ lastVerdict[1].url_type = res.url_type) =>
           lastVerdict[1].verdict = res.verdict

\* C8 witness: two Untrusted results in a row, of different labels, carry
\* different verdicts.
C8_Witness ==
  \E r \in Reqs :
    /\ req[r].pc = "done"
    /\ IsScanResult(req[r].response)
    /\ lastVerdict # None
    /\ lastVerdict[1].trust_status = "Untrusted"
    /\ req[r].response.trust_status = "Untrusted"
    /\ lastVerdict[1].url_type = "defacement"
    /\ req[r].response.url_type = "malware"
    /\ lastVerdict[1].verdict # req[r].response.verdict

\* C9 as stated: for a syntactically valid URL no fault escapes to the caller,
\* and the only error result is the one of a failed domain extraction: a
\* failing DNS lookup, WHOIS lookup, HTTP probe or classifier call still ends
\* in a ScanResult.
C9_NoFaultEscapes ==
  \A r \in Reqs :
    (req[r].pc = "done" /\ Valid(req[r])) =>
      /\ ~IsFault(req[r].response)
      /\ IsError(req[r].response) => req[r].domain = NoDomain
      /\ req[r].domain # NoDomain => IsScanResult(req[r].response)

\* C10: when save_scan raises for a non-error scan, the endpoint still
\* returns exactly the result scanner.scan produced, as it does when
\* save_scan succeeds, and the failed insert leaves no row.
C10_SaveFailureSwallowed ==
  \A r \in Reqs :
    (req[r].pc = "done" /\ req[r].saved # "no") =>
      /\ IsScanResult(req[r].result)
      /\ req[r].response = req[r].result
      /\ ~IsFault(req[r].response)

\* C10 witness: save_scan raised, the table is still empty and the ScanResult
\* is the response.
C10_Witness ==
  \E r \in Reqs :
    /\ req[r].pc = "done"
    /\ req[r].saved = "raised"
    /\ db = <<>>
    /\ IsScanResult(req[r].response)
    /\ req[r].response = req[r].result

Saves(rq) == Len(SelectSeq(rq.calls, LAMBDA c : c = "save"))

\* C11: the endpoint persists exactly the non-error results: a request
\* answered with an error result has made no save_scan call, and a request
\* answered with a ScanResult has made exactly one, before the response was
\* set, with a row whose url is the raw query text and whose domain,
\* risk_score, trust_status and url_type are those of the response; a
\* successful insert is in the table.
C11_PersistIffNotError ==
  \A r \in Reqs :
    /\ (req[r].pc = "done" /\ IsError(req[r].response)) =>
         /\ Saves(req[r]) = 0
         /\ req[r].row = None
         /\ req[r].saved = "no"
    /\ IsScanResult(req[r].result) =>
         /\ req[r].pc \in {"save", "done"}
         /\ req[r].pc = "save" =>
              (Saves(req[r]) = 0 /\ req[r].response = NoResult)
         /\ req[r].pc = "done" =>
              /\ Saves(req[r]) = 1
              /\ req[r].saved \in {"ok", "raised"}
              /\ req[r].row # None
              /\ req[r].row[1].url = req[r].url
              /\ req[r].row[1].domain = req[r].response.domain
              /\ req[r].row[1].risk_score = req[r].response.risk_score
              /\ req[r].row[1].trust_status = req[r].response.trust_status
              /\ req[r].row[1].url_type = req[r].response.url_type
              /\ req[r].saved = "ok" =>
                   \E i \in DOMAIN db : db[i] = req[r].row[1]

\* C11 witness: a phishing result of an unlisted domain has been returned
\* after its row was inserted as the last row of the table.
C11_Witness ==
  \E r \in Reqs :
    /\ req[r].pc = "done"
    /\ IsScanResult(req[r].response)
    /\ req[r].response.url_type = "phishing"
    /\ req[r].saved = "ok"
    /\ Len(db) >= 1
    /\ db[Len(db)].trust_status = "Untrusted"
    /\ db[Len(db)].risk_score = 800
    /\ db[Len(db)].domain = req[r].domain

\* C14: the step in which the existence check turns out false is the step in
\* which scan returns: it ends the request with the WHOIS / RDAP lookup and
\* the classifier not invoked and no risk mapping computed, and from then on
\* the request does nothing but hand its response to the caller.
C14_FalseCheckReturnsAtOnce ==
  [][\A r \in Reqs :
       /\ (req[r].pc = "exists" /\ req'[r].pc # "exists" /\ ~req'[r].exists) =>
            /\ req'[r].pc = "done"
            /\ req'[r].response = req'[r].result
            /\ ~IsScanResult(req'[r].result)
            /\ ~Issued(req'[r], "whois")
            /\ ~Issued(req'[r], "classifier")
            /\ req'[r].calls = Append(Append(req[r].calls, "dns"), "http")
            /\ req'[r].url_type = "" /\ req'[r].age_days = None
       /\ (req[r].pc = "done" /\ Valid(req[r]) /\ ~req[r].exists) =>
            (req'[r] = req[r] \/ req'[r] = IdleReq)
    ]_vars

\* C14 witness: the probe answered but DNS had no record, so the existence
\* check was false, and the request has been answered after two calls.
C14_Witness ==
  \E r \in Reqs :
    /\ req[r].pc = "done"
    /\ Valid(req[r])
    /\ req[r].domain # NoDomain
    /\ ~req[r].existDns /\ req[r].existHttp /\ ~req[r].exists
    /\ req[r].calls = <<"dns", "http">>
    /\ ~IsScanResult(req[r].response)

\* What scan returns for the request rq when it runs alone and the external
\* signals answer as rq recorded them.
ScanAlone(rq) ==
  LET nurl == Normalize(rq.url)
      d == extract_domain(nurl)
  IN  IF ~is_valid_url_syntax(nurl) THEN [error |-> InvalidSyntaxMsg]
      ELSE IF ~(d # NoDomain /\ rq.existDns /\ rq.existHttp)
           THEN [error |-> DomainMissingMsg]
      ELSE IF d \in LoadedDomains THEN TrustedResult(d, rq.http_reachable)
      ELSE IF rq.url_type = "" THEN Fault("classifier")
      ELSE FinalResult(d, rq.url_type, rq.http_reachable)

\* C12: under any interleaving of concurrent scans on the one shared
\* URLScannerService, the trust set stays the set loaded at startup, and the
\* result of every scan is the result it produces alone on the same responses
\* of the external signals.
C12_ScansIndependent ==
  /\ popular_domains = LoadedDomains
  /\ \A r \in Reqs :
       /\ req[r].pc = "save" => req[r].result = ScanAlone(req[r])
       /\ req[r].pc = "done" => req[r].response = ScanAlone(req[r])

\* C12 witness: two scans of the same unlisted URL were in flight together,
\* the classifier answered them differently, and both have been answered.
C12_Witness ==
  \E r \in Reqs, o \in Reqs :
    /\ r # o
    /\ req[r].pc = "done" /\ req[o].pc = "done"
    /\ req[r].url = req[o].url
    /\ req[r].url_type = "benign" /\ req[o].url_type = "phishing"
    /\ req[r].response.trust_status = "Untrusted"
    /\ req[r].response # req[o].response

\* A value calculate_domain_age_days can normalize to a timestamp: a
\* datetime or ISO-8601 text, alone or in front of a list.
Normalizable(v) ==
  LET first == IF v.kind = "list" /\ v.items # <<>> THEN v.items[1] ELSE v IN
  first.kind = "datetime" \/ (first.kind = "str" /\ first.text = "iso")

\* C13: calculate_domain_age_days never raises: for every shape of
\* creation-date value it returns an age in days or None, and it returns None
\* whenever the value cannot be normalized to a timestamp.
C13_AgeNeverRaises ==
  ageCall.pc = "done" =>
    /\ ~ageCall.out.raised
    /\ ~Normalizable(ageCall.arg) => ageCall.out.value = None

=============================================================================
